---- MODULE Spec2Model ----
(***************************************************************************)
(* Model of cisco_csaf_dl.py: the RateLimiter class, get_new_token,        *)
(* process_advisories, download_csaf and main.                             *)
(*                                                                         *)
(* Time is counted in ticks; TicksPerSecond ticks make one second, so that *)
(* datetime differences below one second exist in the model.               *)
(***************************************************************************)
EXTENDS Integers, Sequences, FiniteSets, TLC

VARIABLES
    now,            \* the wall clock, datetime.now(), in ticks
    rate_limiter,   \* the RateLimiter object (its six fields), or NoLimiter
    last_wait,      \* what the last wait_if_needed() saw and did, or NoWait
    lim_pc,         \* caller of a bare limiter: "idle" | "admitted" ("off" under main);
                    \* with threads, the position of each and whether they use a mutex
    call_times,     \* times at which wait_if_needed() let a call through
    pc,             \* main: "start" | "download" | "done" ("off" without main)
    mode,           \* args.mode
    auth_token,     \* main's auth_token: args.token, or the token generated at the start
    new_token,      \* main's new_token: what the refresh returned
    attempt,        \* number of download_csaf calls begun
    dl_pc,          \* download_csaf: "none" | "entry" | "get" | "got" | "process" | "return"
    response,       \* what requests.get returned, or NoResponse
    advisories,     \* the sequence handed to process_advisories
    todo,           \* what the for loop of process_advisories has still to visit
    written,        \* the records process_advisories has saved, in order
    files,          \* the output directory: advisoryId -> content, or Absent
    results,        \* what each download_csaf call returned, and why
    events,         \* the calls made so far, in order
    exit_status     \* the exit status of the process, or NoExit

limiter_vars == <<now, rate_limiter, last_wait, lim_pc, call_times>>
main_vars == <<pc, mode, auth_token, new_token, attempt, dl_pc, response, advisories, todo,
               written, files, results, events, exit_status>>
vars == <<limiter_vars, main_vars>>

----------------------------------------------------------------------------
(* Bounds of the model *)

TicksPerSecond == 2    \* resolution of the clock
MaxSeconds == 3        \* the clock runs freely up to here, then only sleeps move it
MaxCalls == 31         \* calls a bare limiter is asked to admit
MaxLogged == 7         \* the same, when the time of every call is logged
MaxLoggedSeconds == 2  \* the same as MaxSeconds, when the calls are logged
MaxJitter == 1         \* ticks by which time.sleep may overshoot
MaxRecords == 3        \* records in one response
MaxRuns == 2           \* download_csaf calls that write to one directory
MaxLeft == 5           \* calls a window has room for, late in the window
MaxLateSeconds == 2    \* seconds a window has left, late in the window
NumThreads == 2        \* threads that share one limiter
MaxThreadCalls == 7    \* calls the threads make between them
MaxThreadSeconds == 1  \* the same as MaxSeconds, when threads share the limiter

(* Constants of the program *)

SECOND_LIMIT == 5
MINUTE_LIMIT == 30
DAY_LIMIT == 5000
SECOND_WINDOW == 1
MINUTE_WINDOW == 60
DAY_WINDOW == 86400

SecondTicks == SECOND_WINDOW * TicksPerSecond
MinuteTicks == MINUTE_WINDOW * TicksPerSecond
DayTicks == DAY_WINDOW * TicksPerSecond

NoLimiter == [none |-> TRUE]
NoWait == [none |-> TRUE]

----------------------------------------------------------------------------
(* class RateLimiter *)

\* RateLimiter.__init__ at clock value t
RateLimiterInit(t) ==
    [second_timestamp |-> t, second_counter |-> 0,
     minute_timestamp |-> t, minute_counter |-> 0,
     day_timestamp |-> t, day_counter |-> 0]

\* (a variant that resets only after more than a second)
ResetSecond_Strict(rl, current_time) ==
    IF current_time - rl.second_timestamp > SecondTicks
    THEN [rl EXCEPT !.second_counter = 0, !.second_timestamp = current_time]
    ELSE rl

\* wait_if_needed, "Reset counters if time periods have elapsed"
ResetSecond(rl, current_time) ==
    IF current_time - rl.second_timestamp >= SecondTicks
    THEN [rl EXCEPT !.second_counter = 0, !.second_timestamp = current_time]
    ELSE rl

ResetMinute(rl, current_time) ==
    IF current_time - rl.minute_timestamp >= MinuteTicks
    THEN [rl EXCEPT !.minute_counter = 0, !.minute_timestamp = current_time]
    ELSE rl

ResetDay(rl, current_time) ==
    IF current_time - rl.day_timestamp >= DayTicks
    THEN [rl EXCEPT !.day_counter = 0, !.day_timestamp = current_time]
    ELSE rl

ResetElapsed(rl, current_time) ==
    ResetDay(ResetMinute(ResetSecond(rl, current_time), current_time), current_time)

\* The three checks work on [rl, clock, slept, checked]: the limiter, the
\* clock as time.sleep leaves it, the sleep_time handed to time.sleep per
\* window (0 when that window did not sleep), and the clock at which each
\* window's check began. current_time is the value read on entry; jitter is
\* by how much time.sleep overshoots.
CheckSecondLimit(st, current_time, jitter) ==
    LET sleep_time == SecondTicks - (current_time - st.rl.second_timestamp)
        woke == st.clock + sleep_time + jitter
    IN  IF st.rl.second_counter >= SECOND_LIMIT /\ sleep_time > 0
        THEN [rl |-> [st.rl EXCEPT !.second_counter = 0, !.second_timestamp = woke],
              clock |-> woke,
              slept |-> [st.slept EXCEPT ![1] = sleep_time],
              checked |-> [st.checked EXCEPT ![1] = st.clock]]
        ELSE [st EXCEPT !.checked[1] = st.clock]

\* (a variant that sleeps and restarts the window, but keeps its count)
CheckMinuteLimit_KeepsCount(st, current_time, jitter) ==
    LET sleep_time == MinuteTicks - (current_time - st.rl.minute_timestamp)
        woke == st.clock + sleep_time + jitter
    IN  IF st.rl.minute_counter >= MINUTE_LIMIT /\ sleep_time > 0
        THEN [rl |-> [st.rl EXCEPT !.minute_timestamp = woke],
              clock |-> woke,
              slept |-> [st.slept EXCEPT ![2] = sleep_time],
              checked |-> [st.checked EXCEPT ![2] = st.clock]]
        ELSE [st EXCEPT !.checked[2] = st.clock]

CheckMinuteLimit(st, current_time, jitter) ==
    LET sleep_time == MinuteTicks - (current_time - st.rl.minute_timestamp)
        woke == st.clock + sleep_time + jitter
    IN  IF st.rl.minute_counter >= MINUTE_LIMIT /\ sleep_time > 0
        THEN [rl |-> [st.rl EXCEPT !.minute_counter = 0, !.minute_timestamp = woke],
              clock |-> woke,
              slept |-> [st.slept EXCEPT ![2] = sleep_time],
              checked |-> [st.checked EXCEPT ![2] = st.clock]]
        ELSE [st EXCEPT !.checked[2] = st.clock]

CheckDayLimit(st, current_time, jitter) ==
    LET sleep_time == DayTicks - (current_time - st.rl.day_timestamp)
        woke == st.clock + sleep_time + jitter
    IN  IF st.rl.day_counter >= DAY_LIMIT /\ sleep_time > 0
        THEN [rl |-> [st.rl EXCEPT !.day_counter = 0, !.day_timestamp = woke],
              clock |-> woke,
              slept |-> [st.slept EXCEPT ![3] = sleep_time],
              checked |-> [st.checked EXCEPT ![3] = st.clock]]
        ELSE [st EXCEPT !.checked[3] = st.clock]

\* RateLimiter.wait_if_needed(), entered at clock value current_time
WaitIfNeeded(rl, current_time, j1, j2, j3) ==
    LET st0 == [rl |-> ResetElapsed(rl, current_time),
                clock |-> current_time,
                slept |-> <<0, 0, 0>>,
                checked |-> <<current_time, current_time, current_time>>]
        st1 == CheckSecondLimit(st0, current_time, j1)
        st2 == CheckMinuteLimit(st1, current_time, j2)
    IN  CheckDayLimit(st2, current_time, j3)

\* RateLimiter.increment()
Increment(rl) ==
    [rl EXCEPT !.second_counter = @ + 1,
               !.minute_counter = @ + 1,
               !.day_counter = @ + 1]

----------------------------------------------------------------------------
(* A caller that makes wait_if_needed()/increment() pairs on one limiter,  *)
(* while the clock runs.                                                   *)

Jitters == 0..MaxJitter

\* time passes, by a tick, a second, a minute or a day
TickWithin(horizon) ==
    /\ now < horizon * TicksPerSecond
    /\ \E d \in {1, SecondTicks, MinuteTicks, DayTicks} : now' = now + d

\* the call rate_limiter.wait_if_needed() made at the clock value now
CallWaitIfNeeded ==
    \E j1, j2, j3 \in Jitters :
        LET r == WaitIfNeeded(rate_limiter, now, j1, j2, j3)
        IN  /\ (r.slept[1] = 0 => j1 = 0)
            /\ (r.slept[2] = 0 => j2 = 0)
            /\ (r.slept[3] = 0 => j3 = 0)
            /\ rate_limiter' = r.rl
            /\ now' = r.clock
            /\ last_wait' = [current_time |-> now, pre |-> rate_limiter,
                             slept |-> r.slept, checked |-> r.checked,
                             returned |-> r.clock]

Tick ==
    /\ lim_pc \in {"idle", "admitted"}
    /\ TickWithin(MaxSeconds)
    /\ UNCHANGED <<rate_limiter, last_wait, lim_pc, call_times, main_vars>>

TickLogged ==
    /\ lim_pc \in {"idle", "admitted"}
    /\ TickWithin(MaxLoggedSeconds)
    /\ UNCHANGED <<rate_limiter, last_wait, lim_pc, call_times, main_vars>>

wait_if_needed ==
    /\ lim_pc = "idle"
    \* calls since the day window began, or calls the day window has room for
    /\ \/ rate_limiter.day_counter < MaxCalls
       \/ rate_limiter.day_counter >= DAY_LIMIT - MaxLeft
    /\ CallWaitIfNeeded
    /\ lim_pc' = "admitted"
    /\ UNCHANGED <<call_times, main_vars>>

wait_if_needed_logged ==
    /\ lim_pc = "idle"
    /\ Len(call_times) < MaxLogged
    /\ CallWaitIfNeeded
    /\ call_times' = Append(call_times, now')
    /\ lim_pc' = "admitted"
    /\ UNCHANGED main_vars

increment ==
    /\ lim_pc = "admitted"
    /\ rate_limiter' = Increment(rate_limiter)
    /\ lim_pc' = "idle"
    /\ last_wait' = NoWait
    /\ UNCHANGED <<now, call_times, main_vars>>

----------------------------------------------------------------------------
(* Threads that each make wait_if_needed()/increment() pairs, as download_csaf *)
(* does around its GET, on one shared limiter. lim_pc.mutex tells whether  *)
(* the pair is a critical section; lim_pc.at[t] is where thread t stands.  *)
(* A call of wait_if_needed() or increment() is one step here.             *)

Threads == 1..NumThreads

\* (a variant in which no thread ever waits for the mutex)
thread_wait_if_needed_unlocked(t) ==
    /\ lim_pc.at[t] = "idle"
    /\ rate_limiter.day_counter < MaxThreadCalls
    /\ CallWaitIfNeeded
    /\ lim_pc' = [lim_pc EXCEPT !.at[t] = "admitted"]
    /\ UNCHANGED <<call_times, main_vars>>

\* thread t calls rate_limiter.wait_if_needed(), after it has got the mutex
\* if there is one
thread_wait_if_needed(t) ==
    /\ lim_pc.at[t] = "idle"
    /\ lim_pc.mutex => \A u \in Threads : lim_pc.at[u] = "idle"
    /\ rate_limiter.day_counter < MaxThreadCalls
    /\ CallWaitIfNeeded
    /\ lim_pc' = [lim_pc EXCEPT !.at[t] = "admitted"]
    /\ UNCHANGED <<call_times, main_vars>>

\* thread t calls rate_limiter.increment(), and lets go of the mutex
thread_increment(t) ==
    /\ lim_pc.at[t] = "admitted"
    /\ rate_limiter' = Increment(rate_limiter)
    /\ lim_pc' = [lim_pc EXCEPT !.at[t] = "idle"]
    /\ last_wait' = NoWait
    /\ UNCHANGED <<now, call_times, main_vars>>

TickThreads ==
    /\ TickWithin(MaxThreadSeconds)
    /\ UNCHANGED <<rate_limiter, last_wait, lim_pc, call_times, main_vars>>

----------------------------------------------------------------------------
(* Data of a run of main *)

NoToken == "None"
NoResponse == [none |-> TRUE]
NoExit == "running"
Absent == [none |-> TRUE]

Modes == {"all", "dates"}
\* a mode that is neither, as --mode or as argument of download_csaf
OtherMode == "other"
AllModes == Modes \cup {OtherMode}
Ids == {"A1", "A2"}

\* An element of the advisories sequence: a dict with an advisoryId, a dict
\* without one, or something that is no dict.
WithId == [dict : {TRUE}, has_id : {TRUE}, advisoryId : Ids]
Records ==
    WithId \cup {[dict |-> TRUE, has_id |-> FALSE, advisoryId |-> ""],
                 [dict |-> FALSE, has_id |-> FALSE, advisoryId |-> ""]}

RecordSeqs == UNION {[1..n -> Records] : n \in 0..MaxRecords}

\* What response.json() can give: no JSON at all, an array, an object with
\* an "advisories" member (an array, a number, or null), an object without
\* one, a string.
JsonValues ==
    {[t |-> "invalid"], [t |-> "string"], [t |-> "object", has_advisories |-> FALSE]}
    \cup {[t |-> "array", items |-> s] : s \in RecordSeqs}
    \cup {[t |-> "object", has_advisories |-> TRUE, advisories |-> v] :
            v \in {[t |-> "number"], [t |-> "null"]}
                  \cup {[t |-> "array", items |-> s] : s \in RecordSeqs}}

FORBIDDEN == 403

\* What requests.get can return: a 200 with a body, or an error status (whose
\* body download_csaf never reads).
Responses ==
    {[status_code |-> c, json |-> [t |-> "invalid"]] : c \in {FORBIDDEN, 500}}
    \cup {[status_code |-> 200, json |-> v] : v \in JsonValues}

----------------------------------------------------------------------------
(* get_new_token *)

CredentialStates == {"absent", "unparsable", "lacking", "ok"}
PostOutcomes == {"transport_error", "http_error", "bad_json", "no_access_token", "token"}

\* (a variant that sends the request before it looks at the credentials)
GetNewToken_PostFirst(credentials, post) ==
    IF credentials # "ok"
    THEN [token |-> NoToken, posted |-> TRUE, config_error |-> TRUE]
    ELSE [token |-> IF post = "token" THEN "fresh" ELSE NoToken, posted |-> TRUE,
          config_error |-> FALSE]

\* get_new_token(): the token or None, whether the POST to token_url was
\* sent, and whether credentials.json was found wanting. credentials is the
\* state of credentials.json, post what the identity provider does with the
\* request.
GetNewToken(credentials, post) ==
    IF credentials # "ok"
    THEN [token |-> NoToken, posted |-> FALSE, config_error |-> TRUE]
    ELSE [token |-> IF post = "token" THEN "fresh" ELSE NoToken, posted |-> TRUE,
          config_error |-> FALSE]

TokenEvents(r) ==
    <<"get_new_token">> \o (IF r.config_error THEN <<"config_error">> ELSE <<>>)
                        \o (IF r.posted THEN <<"POST">> ELSE <<>>)
                        \o (IF r.token = NoToken THEN <<"no_token">> ELSE <<>>)

\* (a variant that does not look at what get_new_token returned)
TokenObtained_Always(token) == TRUE

\* "if not auth_token" (negated), "if new_token"
TokenObtained(token) == token # NoToken

----------------------------------------------------------------------------
(* process_advisories *)

\* isinstance(advisory, dict) and "advisoryId" in advisory
HasAdvisoryId(advisory) == advisory.dict /\ advisory.has_id

\* (a variant that leaves the loop at a record without advisoryId)
process_advisories_break ==
    /\ pc = "download" /\ dl_pc = "process"
    /\ todo # <<>>
    /\ LET advisory == Head(todo)
       IN  IF HasAdvisoryId(advisory)
           THEN /\ files' = [files EXCEPT ![advisory.advisoryId] = advisory]
                /\ written' = Append(written, advisory)
                /\ todo' = Tail(todo)
           ELSE /\ todo' = <<>>
                /\ UNCHANGED <<files, written>>
    /\ UNCHANGED <<limiter_vars, pc, mode, auth_token, new_token, attempt, dl_pc,
                   response,
                   advisories, results, events, exit_status>>

\* (a variant that walks the sequence from its end)
process_advisories_reversed ==
    /\ pc = "download" /\ dl_pc = "process"
    /\ todo # <<>>
    /\ LET advisory == todo[Len(todo)]
       IN  IF HasAdvisoryId(advisory)
           THEN /\ files' = [files EXCEPT ![advisory.advisoryId] = advisory]
                /\ written' = Append(written, advisory)
           ELSE UNCHANGED <<files, written>>
    /\ todo' = SubSeq(todo, 1, Len(todo) - 1)
    /\ UNCHANGED <<limiter_vars, pc, mode, auth_token, new_token, attempt, dl_pc,
                   response,
                   advisories, results, events, exit_status>>

\* (a variant that opens the file for appending)
process_advisories_append ==
    /\ pc = "download" /\ dl_pc = "process"
    /\ todo # <<>>
    /\ LET advisory == Head(todo)
       IN  IF HasAdvisoryId(advisory)
           THEN /\ files' = [files EXCEPT ![advisory.advisoryId] =
                                 IF @ = Absent THEN advisory ELSE <<@, advisory>>]
                /\ written' = Append(written, advisory)
           ELSE UNCHANGED <<files, written>>
    /\ todo' = Tail(todo)
    /\ UNCHANGED <<limiter_vars, pc, mode, auth_token, new_token, attempt, dl_pc,
                   response,
                   advisories, results, events, exit_status>>

\* one turn of "for advisory in advisories"
process_advisories ==
    /\ pc = "download" /\ dl_pc = "process"
    /\ todo # <<>>
    /\ LET advisory == Head(todo)
       IN  IF HasAdvisoryId(advisory)
           THEN /\ files' = [files EXCEPT ![advisory.advisoryId] = advisory]
                /\ written' = Append(written, advisory)
           ELSE UNCHANGED <<files, written>>
    /\ todo' = Tail(todo)
    /\ UNCHANGED <<limiter_vars, pc, mode, auth_token, new_token, attempt, dl_pc,
                   response,
                   advisories, results, events, exit_status>>

----------------------------------------------------------------------------
(* download_csaf *)

Returns(ret, why) ==
    /\ results' = Append(results, [ret |-> ret, why |-> why])
    /\ dl_pc' = "return"

\* (a variant that waits for the limiter before it looks at the mode)
download_csaf_entry_wait_first ==
    /\ pc = "download" /\ dl_pc = "entry"
    /\ CallWaitIfNeeded
    /\ events' = Append(events, "wait_if_needed")
    /\ IF mode \in Modes
       THEN /\ dl_pc' = "get"
            /\ UNCHANGED results
       ELSE Returns(FALSE, "invalid_mode")
    /\ response' = NoResponse
    /\ advisories' = <<>>
    /\ todo' = <<>>
    /\ written' = <<>>
    /\ UNCHANGED <<lim_pc, call_times, pc, mode, auth_token, new_token, attempt, files,
                   exit_status>>

\* from the entry to rate_limiter.wait_if_needed(); the call starts with no
\* response and no advisories of its own
download_csaf_entry ==
    /\ pc = "download" /\ dl_pc = "entry"
    /\ IF mode \in Modes
       THEN /\ CallWaitIfNeeded
            /\ events' = Append(events, "wait_if_needed")
            /\ dl_pc' = "get"
            /\ UNCHANGED results
       ELSE /\ Returns(FALSE, "invalid_mode")
            /\ UNCHANGED <<now, rate_limiter, last_wait, events>>
    /\ response' = NoResponse
    /\ advisories' = <<>>
    /\ todo' = <<>>
    /\ written' = <<>>
    /\ UNCHANGED <<lim_pc, call_times, pc, mode, auth_token, new_token, attempt, files,
                   exit_status>>

\* requests.get(url, headers=headers): a response, or a RequestException
requests_get ==
    /\ pc = "download" /\ dl_pc = "get"
    /\ events' = Append(events, "GET")
    /\ \/ /\ \E r \in Responses : response' = r
          /\ dl_pc' = "got"
          /\ UNCHANGED results
       \/ /\ Returns(FALSE, "transport_error")
          /\ UNCHANGED response
    /\ UNCHANGED <<limiter_vars, pc, mode, auth_token, new_token, attempt, advisories, todo,
                   written, files, exit_status>>

\* (a variant that reports a body of neither accepted shape as a failure)
Decode_UnexpectedFails(r) ==
    IF r.status_code = FORBIDDEN THEN [ret |-> FALSE, why |-> "forbidden"]
    ELSE IF r.status_code >= 400 THEN [ret |-> FALSE, why |-> "http_error"]
    ELSE IF r.json.t = "invalid" THEN [ret |-> FALSE, why |-> "bad_json"]
    ELSE IF r.json.t = "object" /\ r.json.has_advisories
         THEN IF r.json.advisories.t = "null" THEN [ret |-> TRUE, why |-> "no_advisories"]
              ELSE IF r.json.advisories.t = "number" THEN [ret |-> FALSE, why |-> "type_error"]
              ELSE IF r.json.advisories.items = <<>> THEN [ret |-> TRUE, why |-> "no_advisories"]
              ELSE [ret |-> TRUE, why |-> "process", advisories |-> r.json.advisories.items]
    ELSE IF r.json.t = "array"
         THEN IF r.json.items = <<>> THEN [ret |-> TRUE, why |-> "no_advisories"]
              ELSE [ret |-> TRUE, why |-> "process", advisories |-> r.json.items]
    ELSE [ret |-> FALSE, why |-> "unexpected_format"]

\* (a variant that knows the wrapped shape only)
Decode_WrappedOnly(r) ==
    IF r.status_code = FORBIDDEN THEN [ret |-> FALSE, why |-> "forbidden"]
    ELSE IF r.status_code >= 400 THEN [ret |-> FALSE, why |-> "http_error"]
    ELSE IF r.json.t = "invalid" THEN [ret |-> FALSE, why |-> "bad_json"]
    ELSE IF r.json.t = "object" /\ r.json.has_advisories
         THEN IF r.json.advisories.t = "null" THEN [ret |-> TRUE, why |-> "no_advisories"]
              ELSE IF r.json.advisories.t = "number" THEN [ret |-> FALSE, why |-> "type_error"]
              ELSE IF r.json.advisories.items = <<>> THEN [ret |-> TRUE, why |-> "no_advisories"]
              ELSE [ret |-> TRUE, why |-> "process", advisories |-> r.json.advisories.items]
    ELSE [ret |-> TRUE, why |-> "unexpected_format"]

\* What download_csaf makes of a response: the value it returns and why, or
\* the sequence it hands to the loop of process_advisories.
Decode(r) ==
    IF r.status_code = FORBIDDEN THEN [ret |-> FALSE, why |-> "forbidden"]
    ELSE IF r.status_code >= 400 THEN [ret |-> FALSE, why |-> "http_error"]
    ELSE IF r.json.t = "invalid" THEN [ret |-> FALSE, why |-> "bad_json"]
    ELSE IF r.json.t = "object" /\ r.json.has_advisories
         THEN IF r.json.advisories.t = "null" THEN [ret |-> TRUE, why |-> "no_advisories"]
              ELSE IF r.json.advisories.t = "number" THEN [ret |-> FALSE, why |-> "type_error"]
              ELSE IF r.json.advisories.items = <<>> THEN [ret |-> TRUE, why |-> "no_advisories"]
              ELSE [ret |-> TRUE, why |-> "process", advisories |-> r.json.advisories.items]
    ELSE IF r.json.t = "array"
         THEN IF r.json.items = <<>> THEN [ret |-> TRUE, why |-> "no_advisories"]
              ELSE [ret |-> TRUE, why |-> "process", advisories |-> r.json.items]
    ELSE [ret |-> TRUE, why |-> "unexpected_format"]

\* from rate_limiter.increment() to the call of process_advisories
download_csaf_response ==
    /\ pc = "download" /\ dl_pc = "got"
    /\ rate_limiter' = Increment(rate_limiter)
    /\ events' = Append(events, "increment")
    /\ LET d == Decode(response)
       IN  IF d.why = "process"
           THEN /\ advisories' = d.advisories
                /\ todo' = d.advisories
                /\ written' = <<>>
                /\ dl_pc' = "process"
                /\ UNCHANGED results
           ELSE /\ Returns(d.ret, d.why)
                /\ UNCHANGED <<advisories, todo, written>>
    /\ UNCHANGED <<now, last_wait, lim_pc, call_times, pc, mode, auth_token,
                   new_token, attempt, response, files, exit_status>>

\* process_advisories is through: "return True"
download_csaf_return ==
    /\ pc = "download" /\ dl_pc = "process"
    /\ todo = <<>>
    /\ Returns(TRUE, "ok")
    /\ UNCHANGED <<limiter_vars, pc, mode, auth_token, new_token, attempt,
                   response,
                   advisories, todo, written, files, events, exit_status>>

\* a download_csaf call that has got a sequence of records and hands it to
\* process_advisories, in a directory that earlier calls have written to;
\* written goes on through the calls
next_download ==
    /\ pc = "download" /\ dl_pc \in {"none", "return"}
    /\ attempt < MaxRuns
    /\ attempt' = attempt + 1
    /\ \E s \in RecordSeqs \ {<<>>} : advisories' = s /\ todo' = s
    /\ dl_pc' = "process"
    /\ UNCHANGED <<limiter_vars, pc, mode, auth_token, new_token, response, written,
                   files, results, events, exit_status>>

----------------------------------------------------------------------------
(* main *)

\* "rate_limiter = RateLimiter()" and the first call of download_csaf
StartDownload ==
    /\ rate_limiter' = RateLimiterInit(now)
    /\ pc' = "download"
    /\ attempt' = 1
    /\ dl_pc' = "entry"

\* exit of the process: main returns
Exit ==
    /\ pc' = "done"
    /\ exit_status' = 0

\* parser.parse_args(), which ends the process with status 2 on a --mode
\* that is not among the choices, and "Get token - either from command line
\* or generate new one"
main_token ==
    /\ pc = "start"
    /\ IF mode \notin Modes
       THEN /\ pc' = "done"
            /\ exit_status' = 2
            /\ UNCHANGED <<rate_limiter, auth_token, attempt, dl_pc, events>>
       ELSE IF TokenObtained(auth_token)
       THEN /\ StartDownload
            /\ events' = events \o <<"RateLimiter", "download_csaf">>
            /\ UNCHANGED <<auth_token, exit_status>>
       ELSE \E c \in CredentialStates, p \in PostOutcomes :
              LET r == GetNewToken(c, p)
              IN  /\ (c # "ok" => p = "token")
                  /\ auth_token' = r.token
                  /\ IF TokenObtained(r.token)
                     THEN /\ StartDownload
                          /\ events' = events \o TokenEvents(r)
                                               \o <<"RateLimiter", "download_csaf">>
                          /\ UNCHANGED exit_status
                     ELSE /\ Exit
                          /\ events' = events \o TokenEvents(r)
                          /\ UNCHANGED <<rate_limiter, attempt, dl_pc>>
    /\ UNCHANGED <<now, last_wait, lim_pc, call_times, mode, new_token, response,
                   advisories, todo, written, files, results>>

\* (a variant that retries only after a 403)
ShouldRetry_OnlyForbidden(result) == ~result.ret /\ result.why = "forbidden"

\* "if not success"
ShouldRetry(result) == ~result.ret

\* (a variant that goes on refreshing and retrying while the call fails)
main_after_first_loop ==
    /\ pc = "download" /\ dl_pc = "return" /\ attempt = 1
    /\ IF ShouldRetry(results[Len(results)])
       THEN \E c \in CredentialStates, p \in PostOutcomes :
              LET r == GetNewToken(c, p)
              IN  /\ (c # "ok" => p = "token")
                  /\ new_token' = r.token
                  /\ IF TokenObtained(r.token)
                     THEN /\ dl_pc' = "entry"
                          /\ events' = events \o TokenEvents(r) \o <<"download_csaf">>
                          /\ UNCHANGED <<pc, exit_status>>
                     ELSE /\ Exit
                          /\ events' = events \o TokenEvents(r)
                          /\ UNCHANGED dl_pc
       ELSE /\ Exit
            /\ UNCHANGED <<new_token, dl_pc, events>>
    /\ UNCHANGED <<limiter_vars, mode, auth_token, attempt, response, advisories, todo,
                   written, files, results>>

\* (a variant that makes a new RateLimiter for the retry)
main_after_first_new_limiter ==
    /\ pc = "download" /\ dl_pc = "return" /\ attempt = 1
    /\ IF ShouldRetry(results[1])
       THEN \E c \in CredentialStates, p \in PostOutcomes :
              LET r == GetNewToken(c, p)
              IN  /\ (c # "ok" => p = "token")
                  /\ new_token' = r.token
                  /\ IF TokenObtained(r.token)
                     THEN /\ attempt' = 2
                          /\ dl_pc' = "entry"
                          /\ rate_limiter' = RateLimiterInit(now)
                          /\ events' = events \o TokenEvents(r) \o <<"download_csaf">>
                          /\ UNCHANGED <<pc, exit_status>>
                     ELSE /\ Exit
                          /\ events' = events \o TokenEvents(r)
                          /\ UNCHANGED <<rate_limiter, attempt, dl_pc>>
       ELSE /\ Exit
            /\ UNCHANGED <<rate_limiter, new_token, attempt, dl_pc, events>>
    /\ UNCHANGED <<now, last_wait, lim_pc, call_times, mode, auth_token, response,
                   advisories, todo, written, files, results>>

\* "If first attempt fails, try with a new token"
main_after_first ==
    /\ pc = "download" /\ dl_pc = "return" /\ attempt = 1
    /\ IF ShouldRetry(results[1])
       THEN \E c \in CredentialStates, p \in PostOutcomes :
              LET r == GetNewToken(c, p)
              IN  /\ (c # "ok" => p = "token")
                  /\ new_token' = r.token
                  /\ IF TokenObtained(r.token)
                     THEN /\ attempt' = 2
                          /\ dl_pc' = "entry"
                          /\ events' = events \o TokenEvents(r) \o <<"download_csaf">>
                          /\ UNCHANGED <<pc, exit_status>>
                     ELSE /\ Exit
                          /\ events' = events \o TokenEvents(r)
                          /\ UNCHANGED <<attempt, dl_pc>>
       ELSE /\ Exit
            /\ UNCHANGED <<new_token, attempt, dl_pc, events>>
    /\ UNCHANGED <<limiter_vars, mode, auth_token, response, advisories, todo,
                   written, files, results>>

\* (a variant that refreshes and retries again when the retry failed)
main_after_retry_again ==
    /\ pc = "download" /\ dl_pc = "return" /\ attempt = 2
    /\ IF ShouldRetry(results[Len(results)])
       THEN /\ dl_pc' = "entry"
            /\ events' = events \o <<"get_new_token", "POST", "download_csaf">>
            /\ UNCHANGED <<pc, exit_status>>
       ELSE /\ Exit
            /\ UNCHANGED <<dl_pc, events>>
    /\ UNCHANGED <<limiter_vars, mode, auth_token, new_token, attempt, response,
                   advisories, todo, written, files, results>>

\* the retry has returned; its value is dropped
main_after_retry ==
    /\ pc = "download" /\ dl_pc = "return" /\ attempt = 2
    /\ Exit
    /\ UNCHANGED <<limiter_vars, mode, auth_token, new_token, attempt, dl_pc,
                   response, advisories, todo, written, files, results, events>>

\* time passes between the two download_csaf calls, while get_new_token
\* talks to the identity provider (nothing else in the run reads the clock):
\* less than a second, a second, a minute or a day
RunTick ==
    /\ pc = "download" /\ dl_pc = "entry" /\ attempt = 2
    /\ now = last_wait.returned
    /\ \E d \in {1, SecondTicks, MinuteTicks, DayTicks} : now' = now + d
    /\ UNCHANGED <<rate_limiter, last_wait, lim_pc, call_times, main_vars>>

----------------------------------------------------------------------------
(* Specifications *)

MainIdle ==
    /\ pc = "off" /\ mode = "all" /\ auth_token = NoToken /\ new_token = NoToken
    /\ attempt = 0
    /\ dl_pc = "none" /\ response = NoResponse /\ advisories = <<>> /\ todo = <<>>
    /\ written = <<>> /\ files = [i \in Ids |-> Absent] /\ results = <<>>
    /\ events = <<>> /\ exit_status = NoExit

\* a run of main, with or without --token
Init ==
    /\ now = 0
    /\ rate_limiter = NoLimiter
    /\ last_wait = NoWait
    /\ lim_pc = "off"
    /\ call_times = <<>>
    /\ pc = "start"
    /\ mode \in AllModes
    /\ auth_token \in {"cli", NoToken}
    /\ new_token = NoToken
    /\ attempt = 0
    /\ dl_pc = "none"
    /\ response = NoResponse
    /\ advisories = <<>>
    /\ todo = <<>>
    /\ written = <<>>
    /\ files = [i \in Ids |-> Absent]
    /\ results = <<>>
    /\ events = <<>>
    /\ exit_status = NoExit

Next ==
    \/ main_token
    \/ download_csaf_entry
    \/ requests_get
    \/ download_csaf_response
    \/ process_advisories
    \/ download_csaf_return
    \/ main_after_first
    \/ main_after_retry
    \/ RunTick

Spec == Init /\ [][Next]_vars

\* a limiter on its own, just constructed
InitLimiter ==
    /\ now = 0
    /\ rate_limiter = RateLimiterInit(0)
    /\ last_wait = NoWait
    /\ lim_pc = "idle"
    /\ call_times = <<>>
    /\ MainIdle

\* a limiter late in its minute window, in its day window, or in both: the
\* window began its duration less MaxLateSeconds ago (the clock of the model
\* starts at 0 here) and has since let through all but MaxLeft of its calls,
\* well apart, the last of them just now and more than a second after the
\* one before
Late(late, window, limit) ==
    IF late THEN [timestamp |-> (MaxLateSeconds * TicksPerSecond) - window,
                  counter |-> limit - MaxLeft]
    ELSE [timestamp |-> 0, counter |-> 1]

InitLate ==
    /\ now = 0
    /\ \E m, d \in BOOLEAN :
          /\ m \/ d
          /\ rate_limiter =
                [second_timestamp |-> 0, second_counter |-> 1,
                 minute_timestamp |-> Late(m, MinuteTicks, MINUTE_LIMIT).timestamp,
                 minute_counter |-> Late(m, MinuteTicks, MINUTE_LIMIT).counter,
                 day_timestamp |-> Late(d, DayTicks, DAY_LIMIT).timestamp,
                 day_counter |-> Late(d, DayTicks, DAY_LIMIT).counter]
    /\ last_wait = NoWait
    /\ lim_pc = "idle"
    /\ call_times = <<>>
    /\ MainIdle

InitLimiterAnyTime == InitLimiter \/ InitLate

NextLimiter == Tick \/ wait_if_needed \/ increment

SpecLimiter == InitLimiterAnyTime /\ [][NextLimiter]_vars

NextLogged == TickLogged \/ wait_if_needed_logged \/ increment

SpecLogged == InitLimiter /\ [][NextLogged]_vars

\* download_csaf calls, one after the other, that save into one directory
InitSaves ==
    /\ now = 0
    /\ rate_limiter = NoLimiter
    /\ last_wait = NoWait
    /\ lim_pc = "off"
    /\ call_times = <<>>
    /\ pc = "download" /\ mode = "all" /\ auth_token = "cli" /\ new_token = NoToken
    /\ attempt = 0
    /\ dl_pc = "none" /\ response = NoResponse /\ advisories = <<>> /\ todo = <<>>
    /\ written = <<>> /\ files = [i \in Ids |-> Absent] /\ results = <<>>
    /\ events = <<>> /\ exit_status = NoExit

NextSaves == next_download \/ process_advisories \/ download_csaf_return

SpecSaves == InitSaves /\ [][NextSaves]_vars

\* a run of main with a --mode that is not among the choices, or a call of
\* download_csaf on its own, with any mode, on a limiter that has just let
\* through up to SECOND_LIMIT calls
InitModes ==
    \/ Init /\ mode \notin Modes
    \/ /\ now = 0
       /\ \E n \in 0..SECOND_LIMIT :
             rate_limiter = [RateLimiterInit(0) EXCEPT !.second_counter = n,
                                                       !.minute_counter = n,
                                                       !.day_counter = n]
       /\ last_wait = NoWait
       /\ lim_pc = "off"
       /\ call_times = <<>>
       /\ pc = "download" /\ mode \in AllModes /\ auth_token = "cli"
       /\ new_token = NoToken /\ attempt = 0 /\ dl_pc = "entry"
       /\ response = NoResponse /\ advisories = <<>> /\ todo = <<>>
       /\ written = <<>> /\ files = [i \in Ids |-> Absent] /\ results = <<>>
       /\ events = <<>> /\ exit_status = NoExit

NextModes ==
    \/ main_token
    \/ download_csaf_entry
    \/ requests_get
    \/ download_csaf_response
    \/ process_advisories
    \/ download_csaf_return

SpecModes == InitModes /\ [][NextModes]_vars

\* threads on one limiter, with or without a mutex around the pair
InitThreads ==
    /\ now = 0
    /\ rate_limiter = RateLimiterInit(0)
    /\ last_wait = NoWait
    /\ \E m \in BOOLEAN : lim_pc = [mutex |-> m, at |-> [t \in Threads |-> "idle"]]
    /\ call_times = <<>>
    /\ MainIdle

NextThreads ==
    \/ TickThreads
    \/ \E t \in Threads : thread_wait_if_needed(t)
    \/ \E t \in Threads : thread_increment(t)

SpecThreads == InitThreads /\ [][NextThreads]_vars

----------------------------------------------------------------------------
(* What the log of a run says *)

\* how often a call stands in a log
Count(log, e) == Cardinality({i \in 1..Len(log) : log[i] = e})

Downloads == Count(events, "download_csaf")
TokenCalls == Count(events, "get_new_token")

\* the places of a call in the log
Places(e) == {i \in 1..Len(events) : events[i] = e}

\* the place of the first download_csaf call in the log
FirstDownload ==
    LET places == Places("download_csaf")
    IN  IF places = {} THEN Len(events) + 1
        ELSE CHOOSE i \in places : \A j \in places : i <= j

\* get_new_token calls made after the first download_csaf call
Refreshes ==
    LET first == FirstDownload
    IN  Cardinality({i \in Places("get_new_token") : i > first})

LastResult == results[Len(results)]

\* the identifiers of the records of a sequence that have one
IdsOf(seq) == {seq[i].advisoryId : i \in {k \in 1..Len(seq) : HasAdvisoryId(seq[k])}}

----------------------------------------------------------------------------
(* C1 *)

\* no more than limit of the logged calls fall in any interval shorter than window
RollingOK(limit, window) ==
    \A i \in 1..Len(call_times) :
        Cardinality({j \in i..Len(call_times) : call_times[j] - call_times[i] < window})
            <= limit

\* C1: whatever the clock does, wait_if_needed/increment pairs on one limiter
\* let through at most 5 calls in any rolling second, 30 in any rolling
\* minute and 5000 in any rolling day.
C1_RollingLimits ==
    /\ RollingOK(SECOND_LIMIT, SecondTicks)
    /\ RollingOK(MINUTE_LIMIT, MinuteTicks)
    /\ RollingOK(DAY_LIMIT, DayTicks)

----------------------------------------------------------------------------
(* C2 *)

\* the first download_csaf call ended on a 403, the second succeeded or ended
\* on a 403 too
C2_Case ==
    /\ Len(results) >= 2
    /\ results[1].why = "forbidden"
    /\ (results[2].ret \/ results[2].why = "forbidden")

\* C2, as stated: in that case get_new_token is invoked exactly once in the
\* run and download_csaf exactly twice.
C2_OneTokenCall ==
    (pc = "done" /\ C2_Case) => (TokenCalls = 1 /\ Downloads = 2)

\* C2, amended: in that case get_new_token is invoked exactly once after the
\* first download_csaf call (once in the whole run when --token was given,
\* twice when the first token had to be generated), and download_csaf exactly
\* twice; after a 403 on the first call there is never a third call.
C2_OneRefresh ==
    /\ (Len(results) >= 1 /\ results[1].why = "forbidden") => Downloads <= 2
    /\ (pc = "done" /\ C2_Case) =>
          /\ Refreshes = 1
          /\ TokenCalls = (IF auth_token = "cli" THEN 1 ELSE 2)
          /\ Downloads = 2

C2_Witness ==
    pc = "done" /\ C2_Case /\ results[2].ret /\ auth_token # "cli"

----------------------------------------------------------------------------
(* C3 *)

\* the first download_csaf call failed, and not on a 403
C3_Case ==
    /\ Len(results) >= 1
    /\ ~results[1].ret
    /\ results[1].why # "forbidden"

\* C3, as stated: after such a failure main asks for no fresh token and does
\* not call download_csaf again.
C3_NoRetryUnlessForbidden ==
    (pc = "done" /\ C3_Case) => (Refreshes = 0 /\ Downloads = 1)

\* C3, amended: after a failed first call, whatever made it fail, main asks
\* for a fresh token once, and calls download_csaf a second time exactly when
\* it got one; after a first call that succeeded it does neither.
C3_RetryAfterAnyFailure ==
    (pc = "done" /\ Len(results) >= 1) =>
        /\ Refreshes = (IF results[1].ret THEN 0 ELSE 1)
        /\ Downloads = (IF ~results[1].ret /\ new_token # NoToken THEN 2 ELSE 1)

C3_Witness ==
    pc = "done" /\ C3_Case /\ Refreshes = 1 /\ Downloads = 2

----------------------------------------------------------------------------
(* C4 *)

\* C4: when download_csaf returns, every GET it and the call before it sent
\* has been followed by one increment(), whatever became of the GET.
C4_EveryGetIncremented ==
    dl_pc = "return" => Count(events, "increment") = Count(events, "GET")

----------------------------------------------------------------------------
(* C5 *)

\* C5: a run of main that ends without a download having succeeded ends with
\* a non-zero exit status; the status is 0 only when a download succeeded.
C5_FailureExitsNonZero ==
    pc = "done" => (exit_status = 0 <=> \E i \in 1..Len(results) : results[i].ret)

----------------------------------------------------------------------------
(* C6 *)

\* C6: once get_new_token has returned no token, at the start or for the
\* refresh, the run makes no download_csaf call, no wait and no GET.
C6_NoDownloadWithoutToken ==
    \A i \in 1..Len(events) :
        events[i] = "no_token" =>
            \A j \in (i + 1)..Len(events) :
                events[j] \notin {"download_csaf", "wait_if_needed", "GET"}

C6_Witness ==
    /\ pc = "done"
    /\ new_token = NoToken
    /\ Downloads = 1
    /\ events[Len(events)] = "no_token"

----------------------------------------------------------------------------
(* C7 *)

\* process_advisories has gone through its sequence
ProcessedAll ==
    dl_pc = "return" /\ results # <<>> /\ LastResult.why = "ok"

\* C7: a record without advisoryId is skipped and the records after it are
\* still saved: when process_advisories is through, the records saved, and
\* the files of the directory, are those of exactly the identifiers of the
\* records that have one.
C7_SkipKeepsSiblings ==
    ProcessedAll =>
        /\ IdsOf(written) = IdsOf(advisories)
        /\ Len(written) = Len(SelectSeq(advisories, HasAdvisoryId))
        /\ {i \in Ids : files[i] # Absent} = IdsOf(advisories)

C7_Witness ==
    /\ ProcessedAll
    /\ Len(advisories) = 3
    /\ HasAdvisoryId(advisories[1])
    /\ advisories[2].dict /\ ~advisories[2].has_id
    /\ HasAdvisoryId(advisories[3])
    /\ IdsOf(written) = Ids

----------------------------------------------------------------------------
(* C8 *)

\* the body is JSON, but neither an object with "advisories" nor an array
UnexpectedShape(json) ==
    \/ json.t = "string"
    \/ json.t = "object" /\ ~json.has_advisories

C8_Case ==
    /\ dl_pc = "return"
    /\ response # NoResponse
    /\ response.status_code = 200
    /\ UnexpectedShape(response.json)

\* C8: on such a body download_csaf saves nothing and returns True, and main
\* ends the run with no refresh and no further download_csaf call.
C8_UnexpectedFormatIsNoFailure ==
    C8_Case =>
        /\ LastResult = [ret |-> TRUE, why |-> "unexpected_format"]
        /\ Len(results) = attempt
        /\ written = <<>>
        /\ \A i \in Ids : files[i] = Absent
        /\ pc = "done" => (Downloads = attempt /\ events[Len(events)] = "increment")

C8_Witness ==
    pc = "done" /\ C8_Case /\ attempt = 1

----------------------------------------------------------------------------
(* C9 *)

\* wait_if_needed() has just returned, and on entry the given window held
\* limit calls and had started at least a window ago
RolledOverAtLimit(counter, limit, timestamp, window) ==
    /\ lim_pc = "admitted"
    /\ last_wait # NoWait
    /\ counter = limit
    /\ last_wait.current_time - timestamp >= window

\* C9: a window that is at its limit and whose duration has passed is reset
\* by the next wait_if_needed() (counter 0, start the time of the call) with
\* no sleep for it; when no other window is at its limit, the call does not
\* sleep at all.
C9_ElapsedWindowResets ==
    /\ RolledOverAtLimit(last_wait.pre.second_counter, SECOND_LIMIT,
                         last_wait.pre.second_timestamp, SecondTicks) =>
          /\ rate_limiter.second_counter = 0
          /\ rate_limiter.second_timestamp = last_wait.current_time
          /\ last_wait.slept[1] = 0
          /\ (last_wait.pre.minute_counter < MINUTE_LIMIT
                /\ last_wait.pre.day_counter < DAY_LIMIT) =>
                (last_wait.slept = <<0, 0, 0>>
                   /\ last_wait.returned = last_wait.current_time)
    /\ RolledOverAtLimit(last_wait.pre.minute_counter, MINUTE_LIMIT,
                         last_wait.pre.minute_timestamp, MinuteTicks) =>
          /\ rate_limiter.minute_counter = 0
          /\ rate_limiter.minute_timestamp = last_wait.current_time
          /\ last_wait.slept[2] = 0
          /\ (last_wait.pre.second_counter < SECOND_LIMIT
                /\ last_wait.pre.day_counter < DAY_LIMIT) =>
                (last_wait.slept = <<0, 0, 0>>
                   /\ last_wait.returned = last_wait.current_time)
    /\ RolledOverAtLimit(last_wait.pre.day_counter, DAY_LIMIT,
                         last_wait.pre.day_timestamp, DayTicks) =>
          /\ rate_limiter.day_counter = 0
          /\ rate_limiter.day_timestamp = last_wait.current_time
          /\ last_wait.slept[3] = 0
          /\ (last_wait.pre.second_counter < SECOND_LIMIT
                /\ last_wait.pre.minute_counter < MINUTE_LIMIT) =>
                (last_wait.slept = <<0, 0, 0>>
                   /\ last_wait.returned = last_wait.current_time)

\* the second and the minute window both at their limit and both over
C9_Witness ==
    /\ lim_pc = "admitted"
    /\ last_wait # NoWait
    /\ last_wait.pre.second_counter = SECOND_LIMIT
    /\ last_wait.current_time - last_wait.pre.second_timestamp >= SecondTicks
    /\ last_wait.pre.minute_counter = MINUTE_LIMIT
    /\ last_wait.current_time - last_wait.pre.minute_timestamp >= MinuteTicks
    /\ rate_limiter.minute_counter = 0
    /\ last_wait.slept = <<0, 0, 0>>

----------------------------------------------------------------------------
(* C10 *)

\* C10: at every moment the records process_advisories has saved are, in
\* order, the first ones of the records of the response that have an
\* advisoryId.
C10_SavedInOrderReceived ==
    LET with_id == SelectSeq(advisories, HasAdvisoryId)
    IN  /\ Len(written) <= Len(with_id)
        /\ \A i \in 1..Len(written) : written[i] = with_id[i]

C10_Witness ==
    /\ dl_pc = "process"
    /\ todo # <<>>
    /\ Len(written) = 1
    /\ Len(advisories) = MaxRecords
    /\ IdsOf(advisories) = Ids
    /\ HasAdvisoryId(advisories[MaxRecords])

----------------------------------------------------------------------------
(* C11 *)

\* the two accepted shapes of a body that carries the sequence s
Wrapped(s) ==
    [t |-> "object", has_advisories |-> TRUE, advisories |-> [t |-> "array", items |-> s]]

Bare(s) == [t |-> "array", items |-> s]

AcceptedShape(json) ==
    \/ json.t = "array"
    \/ json.t = "object" /\ json.has_advisories /\ json.advisories.t = "array"

ItemsOf(json) == IF json.t = "array" THEN json.items ELSE json.advisories.items

\* download_csaf has decoded a 200 body of one of the two accepted shapes
C11_Case ==
    /\ dl_pc \in {"process", "return"}
    /\ response # NoResponse
    /\ response.status_code = 200
    /\ AcceptedShape(response.json)

\* C11: whichever of the two shapes carried it, the sequence handed to
\* process_advisories is the sequence of the body, in its order, and a body
\* of the other shape with the same sequence is decoded to the same outcome.
C11_ShapesDecodeAlike ==
    C11_Case =>
        LET s == ItemsOf(response.json)
        IN  /\ advisories = s
            /\ Decode([status_code |-> 200, json |-> Wrapped(s)])
                  = Decode([status_code |-> 200, json |-> Bare(s)])

C11_Witness ==
    /\ C11_Case
    /\ dl_pc = "process"
    /\ response.json.t = "array"
    /\ Len(advisories) = MaxRecords
    /\ advisories[1] # advisories[MaxRecords]

----------------------------------------------------------------------------
(* C12 *)

\* C12: however often a record has been saved, in one sequence or by several
\* download_csaf calls, the directory holds for its identifier one file, with
\* that record as content, and no file for an identifier never saved.
C12_SavingIsIdempotent ==
    \A i \in Ids :
        files[i] = IF i \in IdsOf(written)
                   THEN [dict |-> TRUE, has_id |-> TRUE, advisoryId |-> i]
                   ELSE Absent

\* the same record saved three times: twice by the first call, once by the
\* second
C12_Witness ==
    /\ dl_pc = "return"
    /\ attempt = 2
    /\ Len(advisories) = 1
    /\ Len(written) = 3
    /\ written[1] = written[2]
    /\ written[2] = written[3]

----------------------------------------------------------------------------
(* C13 *)

NetworkEvents == {"POST", "GET"}

\* C13, as stated: in a run in which get_new_token found credentials.json
\* absent, unparsable or without CLIENT_ID/CLIENT_SECRET, no token request
\* and no advisory GET has been sent.
C13_ConfigErrorBeforeNetwork ==
    (\E i \in 1..Len(events) : events[i] = "config_error") =>
        \A j \in 1..Len(events) : events[j] \notin NetworkEvents

\* C13, amended: a get_new_token call that finds credentials.json wanting
\* sends no token request and returns no token, and the run ends there: no
\* request, wait or download_csaf call follows. When that call is the one
\* that should get the first token, the run has sent nothing at all; when it
\* is the refresh, what has been sent is what the run sent before the
\* refresh, the GET of the first download_csaf call included.
C13_ConfigErrorEndsRun ==
    \A i \in 1..Len(events) :
        events[i] = "config_error" =>
            /\ pc = "done"
            /\ i > 1 /\ events[i - 1] = "get_new_token"
            /\ Len(events) = i + 1 /\ events[i + 1] = "no_token"
            /\ i = 2 => (\A j \in 1..Len(events) : events[j] \notin NetworkEvents)
            /\ i > 2 => (Downloads = 1 /\ Len(results) = 1 /\ ~results[1].ret)

\* no --token, and no usable credentials.json
C13_Witness ==
    /\ pc = "done"
    /\ auth_token = NoToken
    /\ events = <<"get_new_token", "config_error", "no_token">>
    /\ results = <<>>

----------------------------------------------------------------------------
(* C14 *)

\* C14: when wait_if_needed() has returned, each counter is below its limit;
\* after the increment() that follows, each is at most its limit.
C14_BelowLimitOnReturn ==
    /\ lim_pc = "admitted" =>
          /\ rate_limiter.second_counter < SECOND_LIMIT
          /\ rate_limiter.minute_counter < MINUTE_LIMIT
          /\ rate_limiter.day_counter < DAY_LIMIT
    /\ lim_pc = "idle" =>
          /\ rate_limiter.second_counter <= SECOND_LIMIT
          /\ rate_limiter.minute_counter <= MINUTE_LIMIT
          /\ rate_limiter.day_counter <= DAY_LIMIT

\* wait_if_needed() has returned from a limiter whose second and minute
\* windows were both full and not over
C14_Witness ==
    /\ lim_pc = "admitted"
    /\ last_wait # NoWait
    /\ last_wait.pre.second_counter = SECOND_LIMIT
    /\ last_wait.pre.minute_counter = MINUTE_LIMIT
    /\ last_wait.slept[1] > 0
    /\ last_wait.slept[2] > 0
    /\ rate_limiter.second_counter = 0
    /\ rate_limiter.minute_counter = 0

----------------------------------------------------------------------------
(* C15 *)

\* the last wait_if_needed() slept for window k
Slept(k) == lim_pc = "admitted" /\ last_wait # NoWait /\ last_wait.slept[k] > 0

\* C15: a sleep for a window lasts the window's duration less the time
\* that had passed, when the window was checked, since the window began (so
\* that it ends when the window rolls over), also when an earlier window of
\* the same call has slept before.
C15_SleepsUntilRollover ==
    /\ Slept(1) => last_wait.checked[1] + last_wait.slept[1]
                      = last_wait.pre.second_timestamp + SecondTicks
    /\ Slept(2) => last_wait.checked[2] + last_wait.slept[2]
                      = last_wait.pre.minute_timestamp + MinuteTicks
    /\ Slept(3) => last_wait.checked[3] + last_wait.slept[3]
                      = last_wait.pre.day_timestamp + DayTicks

----------------------------------------------------------------------------
(* C16 *)

\* the limiter as the checks of the last wait_if_needed() found it
AfterResets == ResetElapsed(last_wait.pre, last_wait.current_time)

\* the last wait_if_needed() came to the check of a window that was at its
\* limit and, by the clock at that moment, had no time left
OverWhenChecked(k, counter, limit, timestamp, window) ==
    /\ lim_pc = "admitted"
    /\ last_wait # NoWait
    /\ counter >= limit
    /\ window - (last_wait.checked[k] - timestamp) <= 0

\* C16: a window that is at its limit when it is checked, and for which
\* duration less elapsed time is then not positive, is not waited for, and is
\* reset: counter 0, start the time of the check.
C16_NoWaitWhenOver ==
    /\ OverWhenChecked(1, AfterResets.second_counter, SECOND_LIMIT,
                       AfterResets.second_timestamp, SecondTicks) =>
          /\ last_wait.slept[1] = 0
          /\ rate_limiter.second_counter = 0
          /\ rate_limiter.second_timestamp = last_wait.checked[1]
    /\ OverWhenChecked(2, AfterResets.minute_counter, MINUTE_LIMIT,
                       AfterResets.minute_timestamp, MinuteTicks) =>
          /\ last_wait.slept[2] = 0
          /\ rate_limiter.minute_counter = 0
          /\ rate_limiter.minute_timestamp = last_wait.checked[2]
    /\ OverWhenChecked(3, AfterResets.day_counter, DAY_LIMIT,
                       AfterResets.day_timestamp, DayTicks) =>
          /\ last_wait.slept[3] = 0
          /\ rate_limiter.day_counter = 0
          /\ rate_limiter.day_timestamp = last_wait.checked[3]

----------------------------------------------------------------------------
(* C17 *)

\* a counter of the limiter is above its limit
OverLimit ==
    \/ rate_limiter.second_counter > SECOND_LIMIT
    \/ rate_limiter.minute_counter > MINUTE_LIMIT
    \/ rate_limiter.day_counter > DAY_LIMIT

\* C17: when the threads run the wait_if_needed()/increment() pair as a
\* critical section, no counter ever exceeds its limit; without the mutex a
\* state in which one does is reachable (C17_Witness).
C17_AtomicPairKeepsLimits ==
    lim_pc.mutex => ~OverLimit

\* no mutex: two threads were let through on the same count, and both have
\* incremented
C17_Witness ==
    /\ ~lim_pc.mutex
    /\ \A t \in Threads : lim_pc.at[t] = "idle"
    /\ rate_limiter.second_counter = SECOND_LIMIT + 1

----------------------------------------------------------------------------
(* C18 *)

\* C18: a download_csaf call with a mode that is neither "all" nor "dates"
\* returns False at once: no wait_if_needed(), no GET, the limiter, the
\* clock and the directory as they were. A run of main with such a --mode
\* ends before it gets a token or calls download_csaf at all, so main
\* neither refreshes a token nor calls download_csaf a second time.
C18_InvalidModeIsNoFault ==
    /\ [][(pc = "download" /\ dl_pc = "entry" /\ mode \notin Modes) =>
            /\ rate_limiter' = rate_limiter
            /\ now' = now
            /\ events' = events
            /\ files' = files
            /\ dl_pc' = "return"
            /\ results' = Append(results, [ret |-> FALSE, why |-> "invalid_mode"])]_vars
    /\ [](mode \notin Modes =>
            /\ events = <<>>
            /\ attempt = 0
            /\ Len(results) <= 1
            /\ pc = "done" => (rate_limiter = NoLimiter /\ results = <<>>))

\* download_csaf, called with such a mode on a limiter whose second window
\* is full, has returned
C18_Witness ==
    /\ mode \notin Modes
    /\ dl_pc = "return"
    /\ results = <<[ret |-> FALSE, why |-> "invalid_mode"]>>
    /\ rate_limiter # NoLimiter
    /\ rate_limiter.second_counter = SECOND_LIMIT
    /\ rate_limiter.second_timestamp = now
    /\ events = <<>>

----------------------------------------------------------------------------
(* C19 *)

\* how far a download_csaf call is from its return
StepsToReturn ==
    CASE dl_pc = "entry" -> MaxRecords + 5
      [] dl_pc = "get" -> MaxRecords + 4
      [] dl_pc = "got" -> MaxRecords + 3
      [] dl_pc = "process" -> Len(todo) + 2
      [] dl_pc = "return" -> 1
      [] OTHER -> 0

\* a bound on the steps main has still to take
StepsLeft ==
    CASE pc = "start" -> 3 * (MaxRecords + 6)
      [] pc = "download" -> (2 - attempt) * (MaxRecords + 6) + StepsToReturn
      [] OTHER -> 0

\* C19: every step of a run of main brings it nearer to its end (the clock
\* alone may move without that), so a run ends after a bounded number of
\* steps; it calls download_csaf at most twice and get_new_token at most
\* twice, at most once before the first download_csaf call, and then only
\* when no --token was given, and at most once after it; a second
\* download_csaf call comes only after the first has returned False and the
\* refresh has returned a token.
C19_BoundedRun ==
    /\ [][/\ StepsLeft' <= StepsLeft
          /\ main_vars' # main_vars => StepsLeft' < StepsLeft]_vars
    /\ [](/\ StepsLeft >= 0
          /\ Downloads <= 2
          /\ TokenCalls <= 2
          /\ Refreshes <= 1
          /\ TokenCalls - Refreshes <= (IF auth_token = "cli" THEN 0 ELSE 1)
          /\ Downloads = 2 =>
                /\ Len(results) >= 1
                /\ ~results[1].ret
                /\ Refreshes = 1
                /\ new_token # NoToken
                /\ LET first == FirstDownload
                       second == CHOOSE d \in Places("download_csaf") : d > first
                   IN  \E g \in Places("get_new_token") : first < g /\ g < second)

\* a run that made all four calls has ended
C19_Witness ==
    /\ pc = "done"
    /\ auth_token # "cli"
    /\ TokenCalls = 2
    /\ Downloads = 2
    /\ Len(results) = 2

----------------------------------------------------------------------------
(* C20 *)

\* the GET of the first download_csaf call and the GET of the retry have both
\* returned
C20_Case ==
    /\ attempt = 2
    /\ Count(events, "increment") = 2

\* the increment() calls made before the retry began
IncrementsOfFirst ==
    LET first == FirstDownload
        second == CHOOSE d \in Places("download_csaf") : d > first
    IN  Cardinality({i \in Places("increment") : i < second})

\* what a counter holds after the two increments: 2, or 1 when the retry
\* found the window over and began a new one
AfterTwo(timestamp, window) ==
    IF last_wait.current_time - timestamp >= window THEN 1 ELSE 2

\* C20: a run of main makes one RateLimiter, before its first download_csaf
\* call, and none after; the wait_if_needed() of the retry finds the counters
\* as the first call left them (1 each when its GET returned); and when both
\* GETs have returned, each counter whose window did not roll over in
\* between holds 2.
C20_OneLimiterForBothAttempts ==
    /\ Count(events, "RateLimiter") = (IF Downloads >= 1 THEN 1 ELSE 0)
    /\ LET first == FirstDownload
       IN  \A i \in Places("RateLimiter") : i < first
    /\ (attempt = 2 /\ dl_pc # "entry") =>
          /\ last_wait.pre.second_counter = IncrementsOfFirst
          /\ last_wait.pre.minute_counter = IncrementsOfFirst
          /\ last_wait.pre.day_counter = IncrementsOfFirst
    /\ C20_Case =>
          /\ last_wait.pre.second_counter = 1
          /\ last_wait.slept = <<0, 0, 0>>
          /\ rate_limiter.second_counter
                = AfterTwo(last_wait.pre.second_timestamp, SecondTicks)
          /\ rate_limiter.minute_counter
                = AfterTwo(last_wait.pre.minute_timestamp, MinuteTicks)
          /\ rate_limiter.day_counter
                = AfterTwo(last_wait.pre.day_timestamp, DayTicks)

\* both GETs returned, and no window rolled over between them
C20_Witness ==
    /\ pc = "done"
    /\ C20_Case
    /\ rate_limiter.second_counter = 2
    /\ rate_limiter.minute_counter = 2
    /\ rate_limiter.day_counter = 2

====
